---- MODULE Spec2Model ----
(***************************************************************************)
(* State-machine model of the shop application (ecommerce-backend/shop):   *)
(* the Product / Cart / CartItem / Order / OrderItem / Review rows of      *)
(* models.py and the request handlers of views.py and serializers.py that  *)
(* change them.  Money is counted in whole currency units.                 *)
(***************************************************************************)
EXTENDS Integers, Sequences, FiniteSets, TLC

\* ------------------------------------------------------------------ bounds
Users == {"u1", "u2"}
Products == {"p1", "p2"}
Prices == {2, 3}
Ratings == {2, 5}

\* number of requests of one behaviour
MaxOps == 4
\* stock of every product when the catalogue is created
InitStock == 2
\* largest stock the ledger is driven to
MaxStock == 3
\* StockMovement rows of one behaviour
MaxMovements == 1

\* Order rows of one behaviour of the purchase ledger
MaxOrders == 1
\* Review.report calls of one behaviour
MaxReports == 6
\* Review.vote_helpful calls of one behaviour
MaxVotes == 1
MaxAddresses == 3

\* the quantities requests name
CartQuantities == {0, 1, 2}
AdjustQuantities == {0 - 1, 1, 2}
MovementQuantities == {0 - 2, 0 - 1, 1, 2}

\* ------------------------------------------------------------------ state
VARIABLES
    product,      \* Product rows: [stock, price, available, average_rating, total_reviews]
    cart_status,  \* Cart.status of each user's cart
    cart_items,   \* CartItem rows of each cart, in primary-key order
    orders,       \* Order rows in creation order, each with its OrderItem rows
    debited,      \* history: per order, the stock its checkout debited per product
    reviews,      \* Review rows in creation order
    movements,    \* StockMovement rows in creation order
    last,         \* the last request and what it returned
    nops,         \* requests served so far
    pc,           \* where each user's in-flight Cart.checkout stands
    ck,           \* the locals of each user's in-flight Cart.checkout
    wishlist,     \* WishlistItem rows in creation order
    addresses     \* Address rows in creation order

vars == <<product, cart_status, cart_items, orders, debited, reviews, movements,
          last, nops, pc, ck, wishlist, addresses>>

\* Order.STATUS_CHOICES
STATUS_CHOICES == {"pending", "processing", "shipped", "delivered", "cancelled"}

\* StockMovement.MOVEMENT_TYPES
MOVEMENT_TYPES == {"in", "out", "adjustment"}

\* ------------------------------------------------------------ pure helpers
RECURSIVE SumSeq(_)
SumSeq(s) == IF s = <<>> THEN 0 ELSE Head(s) + SumSeq(Tail(s))

\* the subtotal with the quantity left out
CartItemPriceOnly(item) == product[item.product].price

\* CartItem.subtotal: product.price * quantity, the price read from the Product row
CartItemSubtotal(item) == product[item.product].price * item.quantity

\* Cart.total_price
total_price(u) ==
    SumSeq([i \in 1..Len(cart_items[u]) |-> CartItemSubtotal(cart_items[u][i])])

\* OrderItem.subtotal: the stored price * quantity
subtotal(oi) == oi.price * oi.quantity

\* sum of the OrderItem subtotals of an order
ItemsTotal(o) == SumSeq([i \in 1..Len(o.items) |-> subtotal(o.items[i])])

\* the products a cart holds a row for
CartProducts(u) == {cart_items[u][i].product : i \in 1..Len(cart_items[u])}

\* an order that debited nothing
NoDebit == [p \in Products |-> 0]

\* a plain IntegerField: no CHECK on the column
StockFieldUnchecked(s) == TRUE

\* PositiveIntegerField: the column carries CHECK (stock >= 0)
StockFieldOK(s) == s >= 0

Ret(op, r) == [op |-> op, ret |-> r]

\* one more request, served alone, of a behaviour of at most MaxOps requests
Step == nops < MaxOps /\ nops' = nops + 1 /\ UNCHANGED <<pc, ck, wishlist, addresses>>

\* the locals of a checkout that has not started
NoCheckout ==
    [order |-> 0, todo |-> <<>>, result |-> "none",
     mem |-> [stock |-> 0, price |-> 0, available |-> FALSE,
              average_rating |-> 0, total_reviews |-> 0]]

\* ------------------------------------------------------------------- Init
Init ==
    /\ product = [p \in Products |->
                    [stock |-> InitStock, price |-> 2, available |-> TRUE,
                     average_rating |-> 0, total_reviews |-> 0]]
    /\ cart_status = [u \in Users |-> "active"]
    /\ cart_items = [u \in Users |-> <<>>]
    /\ orders = <<>>
    /\ debited = <<>>
    /\ reviews = <<>>
    /\ movements = <<>>
    /\ last = Ret("none", "none")
    /\ nops = 0
    /\ pc = [u \in Users |-> "idle"]
    /\ ck = [u \in Users |-> NoCheckout]
    /\ wishlist = <<>>
    /\ addresses = <<>>

\* ------------------------------------------------------- Product.adjust_stock
\* the guard written with > in place of >=
RemoveAllowedStrict(s, q) == s > q

\* the guard of operation 'remove'
RemoveAllowed(s, q) == s >= q

\* the stock adjust_stock computes, before saving
AdjustedStock(s, q, operation) ==
    IF operation = "remove" THEN s - q ELSE s + q

\* adjust_stock on the row rows[p]: <<new rows, return value>>
adjust_stock(rows, p, q, operation) ==
    IF operation = "remove" /\ ~RemoveAllowed(rows[p].stock, q)
    THEN <<rows, "False">>
    ELSE IF operation \in {"remove", "add"}
    THEN LET s == AdjustedStock(rows[p].stock, q, operation)
         IN  IF StockFieldOK(s)
             THEN <<[rows EXCEPT ![p].stock = s], "True">>
             ELSE <<rows, "IntegrityError">>
    ELSE <<rows, "False">>

AdjustStock(p, q, operation) ==
    /\ LET r == adjust_stock(product, p, q, operation)
       IN  /\ product' = r[1]
           /\ last' = Ret("adjust_stock", r[2])
    /\ UNCHANGED <<cart_status, cart_items, orders, debited, reviews, movements>>

\* ---------------------------------------------------------- Product admin
\* a price change that also reaches the OrderItem rows of the product
UpdateProductPriceLive(p, pr) ==
    /\ product' = [product EXCEPT ![p].price = pr]
    /\ orders' = [i \in 1..Len(orders) |->
                    [orders[i] EXCEPT !.items =
                        [k \in 1..Len(orders[i].items) |->
                            IF orders[i].items[k].product = p
                            THEN [orders[i].items[k] EXCEPT !.price = pr]
                            ELSE orders[i].items[k]]]]
    /\ last' = Ret("update_product", "200")
    /\ UNCHANGED <<cart_status, cart_items, debited, reviews, movements>>

\* ProductViewSet.partial_update with a price (ProductSerializer.price)
UpdateProductPrice(p, pr) ==
    /\ product' = [product EXCEPT ![p].price = pr]
    /\ last' = Ret("update_product", "200")
    /\ UNCHANGED <<cart_status, cart_items, orders, debited, reviews, movements>>

\* the catalogue admin sets Product.available
SetAvailable(p, b) ==
    /\ product' = [product EXCEPT ![p].available = b]
    /\ last' = Ret("set_available", "200")
    /\ UNCHANGED <<cart_status, cart_items, orders, debited, reviews, movements>>

\* ------------------------------------------------------- StockMovement.save
\* the stock StockMovement.save computes for its product
MovementStock(s, type, q) ==
    IF type = "in" THEN s + q
    ELSE IF type = "out" THEN s - (IF q < 0 THEN 0 - q ELSE q)
    ELSE IF type = "adjustment" THEN s + q
    ELSE s

\* a new StockMovement is saved: product.save() first, then the movement row
SaveStockMovement(p, type, q) ==
    /\ LET s == MovementStock(product[p].stock, type, q)
       IN  IF StockFieldOK(s)
           THEN /\ product' = [product EXCEPT ![p].stock = s]
                /\ movements' = Append(movements,
                                       [product |-> p, type |-> type, quantity |-> q])
                /\ last' = Ret("stock_movement", "saved")
           ELSE /\ last' = Ret("stock_movement", "IntegrityError")
                /\ UNCHANGED <<product, movements>>
    /\ UNCHANGED <<cart_status, cart_items, orders, debited, reviews>>

\* the persisted StockMovement i is saved again: save() runs as on the first
\* save, on the product as it is now, and the movement row is rewritten
ResaveStockMovement(i) ==
    /\ i \in 1..Len(movements)
    /\ LET mv == movements[i]
           s == MovementStock(product[mv.product].stock, mv.type, mv.quantity)
       IN  IF StockFieldOK(s)
           THEN /\ product' = [product EXCEPT ![mv.product].stock = s]
                /\ last' = Ret("stock_movement_resave", "saved")
           ELSE /\ last' = Ret("stock_movement_resave", "IntegrityError")
                /\ UNCHANGED product
    /\ UNCHANGED <<movements, cart_status, cart_items, orders, debited, reviews>>

\* ------------------------------------------------------------ CartItem.save
\* CartItem.clean: quantity within stock and product available
CartItemClean(q, prow) == q <= prow.stock /\ prow.available

\* full_clean: field validators, clean(), unique_together (cart, product)
CartItemFullClean(u, p, q) ==
    /\ q >= 0
    /\ CartItemClean(q, product[p])
    /\ p \notin CartProducts(u)

\* CartItemViewSet.perform_create
AddCartItem(u, p, q) ==
    /\ IF CartItemFullClean(u, p, q)
       THEN /\ cart_items' = [cart_items EXCEPT
                                ![u] = Append(@, [product |-> p, quantity |-> q])]
            /\ last' = Ret("add_cart_item", "201")
       ELSE /\ last' = Ret("add_cart_item", "ValidationError")
            /\ UNCHANGED cart_items
    /\ UNCHANGED <<product, cart_status, orders, debited, reviews, movements>>

\* CartItemViewSet.partial_update of the quantity of line k: serializer.update
\* ends in CartItem.save, whose full_clean leaves the row itself out of the
\* uniqueness test
UpdateCartItem(u, k, q) ==
    /\ k \in 1..Len(cart_items[u])
    /\ IF q >= 0 /\ CartItemClean(q, product[cart_items[u][k].product])
       THEN /\ cart_items' = [cart_items EXCEPT ![u][k].quantity = q]
            /\ last' = Ret("update_cart_item", "200")
       ELSE /\ last' = Ret("update_cart_item", "ValidationError")
            /\ UNCHANGED cart_items
    /\ UNCHANGED <<product, cart_status, orders, debited, reviews, movements>>

\* ------------------------------------------------------------ Cart.checkout
\* the validation loop without its availability test
CheckoutValidStockOnly(rows, items) ==
    \A i \in 1..Len(items) :
        ~(items[i].quantity > rows[items[i].product].stock)

\* the validation loop: every line available and within stock
CheckoutValid(rows, items) ==
    \A i \in 1..Len(items) :
        /\ rows[items[i].product].available
        /\ ~(items[i].quantity > rows[items[i].product].stock)

\* the processing loop: one OrderItem per cart line at the product's current
\* price, then adjust_stock(quantity, 'remove') whose return value is dropped
\* (rets lists the values returned, in the order of the calls)
RECURSIVE ProcessItems(_, _)
ProcessItems(st, todo) ==
    IF todo = <<>> \/ st.raised THEN st
    ELSE LET item == Head(todo)
             oi == [product |-> item.product, quantity |-> item.quantity,
                    price |-> st.rows[item.product].price]
             r == adjust_stock(st.rows, item.product, item.quantity, "remove")
         IN  ProcessItems(
               [rows |-> r[1],
                items |-> Append(st.items, oi),
                debit |-> IF r[2] = "True"
                          THEN [st.debit EXCEPT ![item.product] = @ + item.quantity]
                          ELSE st.debit,
                raised |-> r[2] = "IntegrityError",
                rets |-> Append(st.rets, r[2])],
               Tail(todo))

NewOrder(u, total) ==
    [user |-> u, status |-> "pending", total_amount |-> total, items |-> <<>>]

\* the cart status checkout leaves
CheckedOut == "checked_out"

CartCheckout(u) ==
    /\ IF ~CheckoutValid(product, cart_items[u])
       THEN /\ last' = Ret("Cart.checkout", "False")
            /\ UNCHANGED <<product, cart_status, orders, debited>>
       ELSE LET st == ProcessItems([rows |-> product, items |-> <<>>,
                                    debit |-> NoDebit, raised |-> FALSE,
                                    rets |-> <<>>],
                                   cart_items[u])
                order == [NewOrder(u, total_price(u)) EXCEPT !.items = st.items]
            IN  /\ product' = st.rows
                /\ orders' = Append(orders, order)
                /\ debited' = Append(debited, st.debit)
                /\ IF st.raised
                   THEN /\ last' = Ret("Cart.checkout", "IntegrityError")
                        /\ UNCHANGED cart_status
                   ELSE /\ last' = Ret("Cart.checkout", "True")
                        /\ cart_status' = [cart_status EXCEPT ![u] = CheckedOut]
    /\ UNCHANGED <<cart_items, reviews, movements>>

\* ------------------------------------------------- CartViewSet.checkout
\* OrderSerializer.create without its pending-order test
NoPendingOrder(u) == FALSE

\* OrderSerializer.create: refuse when the user has a pending order
HasPendingOrder(u) ==
    \E i \in 1..Len(orders) : orders[i].user = u /\ orders[i].status = "pending"

CheckoutEndpoint(u) ==
    /\ IF cart_items[u] = <<>>
       THEN /\ last' = Ret("cart-checkout", "400")
            /\ UNCHANGED <<orders, debited, cart_items>>
       ELSE IF HasPendingOrder(u)
       THEN /\ last' = Ret("cart-checkout", "ValidationError")
            /\ UNCHANGED <<orders, debited, cart_items>>
       ELSE /\ orders' = Append(orders, NewOrder(u, 0))
            /\ debited' = Append(debited, NoDebit)
            /\ cart_items' = [cart_items EXCEPT ![u] = <<>>]
            /\ last' = Ret("cart-checkout", "200")
    /\ UNCHANGED <<product, cart_status, reviews, movements>>

\* ------------------------------------------- OrderViewSet.perform_create
\* The first serializer.save() runs OrderSerializer.create and commits an
\* Order before the cart is looked at; an empty cart then raises
\* ValidationError, a non-empty one fails on cart.total_amount, which Cart
\* does not have.  Either way the request fails and the Order row stays.
CreateOrderEndpoint(u) ==
    /\ IF HasPendingOrder(u)
       THEN /\ last' = Ret("orders-create", "ValidationError")
            /\ UNCHANGED <<orders, debited>>
       ELSE /\ orders' = Append(orders, NewOrder(u, 0))
            /\ debited' = Append(debited, NoDebit)
            /\ last' = Ret("orders-create",
                           IF cart_items[u] = <<>> THEN "ValidationError"
                                                   ELSE "AttributeError")
    /\ UNCHANGED <<product, cart_status, cart_items, reviews, movements>>

\* -------------------------------------------------------------- Order
\* can_cancel that also lets a shipped order through
can_cancel_shipped(status) == status \in {"pending", "processing", "shipped"}

\* Order.can_cancel
can_cancel(status) == status \in {"pending", "processing"}

\* the loop leaving after its first OrderItem
RestoreStockFirstOnly(rows, todo) ==
    IF todo = <<>> THEN rows
    ELSE adjust_stock(rows, Head(todo).product, Head(todo).quantity, "add")[1]

\* the loop of cancel_order: adjust_stock(quantity, 'add') per OrderItem
RECURSIVE RestoreStock(_, _)
RestoreStock(rows, todo) ==
    IF todo = <<>> THEN rows
    ELSE RestoreStock(
           adjust_stock(rows, Head(todo).product, Head(todo).quantity, "add")[1],
           Tail(todo))

\* the Order row cancel_order saves
CancelledOrder(o) == [o EXCEPT !.status = "cancelled"]

CancelOrder(i) ==
    /\ i \in 1..Len(orders)
    /\ IF ~can_cancel(orders[i].status)
       THEN /\ last' = Ret("cancel_order", "False")
            /\ UNCHANGED <<product, orders>>
       ELSE /\ product' = RestoreStock(product, orders[i].items)
            /\ orders' = [orders EXCEPT ![i] = CancelledOrder(@)]
            /\ last' = Ret("cancel_order", "True")
    /\ UNCHANGED <<cart_status, cart_items, debited, reviews, movements>>

\* a status field that takes any string
AnyStatus(s) == TRUE

\* OrderSerializer.status: a ChoiceField over Order.STATUS_CHOICES
ValidStatus(s) == s \in STATUS_CHOICES

\* OrderViewSet.partial_update: status is the one writable field
UpdateOrderStatus(i, s) ==
    /\ i \in 1..Len(orders)
    /\ IF ValidStatus(s)
       THEN /\ orders' = [orders EXCEPT ![i].status = s]
            /\ last' = Ret("update_order", "200")
       ELSE /\ last' = Ret("update_order", "ValidationError")
            /\ UNCHANGED orders
    /\ UNCHANGED <<product, cart_status, cart_items, debited, reviews, movements>>

\* Order.objects.all(): every user's orders
AllOrders(u) == {i \in 1..Len(orders) : TRUE}

\* OrderViewSet.get_queryset: the primary keys of the requesting user's orders
OrderQueryset(u) == {i \in 1..Len(orders) : orders[i].user = u}

\* OrderViewSet.list: the rows of the queryset, by primary key
ListOrders(u) ==
    /\ last' = [op |-> "orders-list", ret |-> "200",
                rows |-> [i \in OrderQueryset(u) |-> orders[i]]]
    /\ UNCHANGED <<product, cart_status, cart_items, orders, debited, reviews,
                   movements>>

\* OrderViewSet.retrieve: get_object over the queryset, 404 outside it
RetrieveOrder(u, i) ==
    /\ last' = IF i \in OrderQueryset(u)
               THEN [op |-> "orders-detail", ret |-> "200",
                     rows |-> [j \in {i} |-> orders[j]]]
               ELSE [op |-> "orders-detail", ret |-> "404",
                     rows |-> [j \in {} |-> j]]
    /\ UNCHANGED <<product, cart_status, cart_items, orders, debited, reviews,
                   movements>>

\* -------------------------------------------------------------- Review
\* the visible reviews of product p
VisibleReviews(rs, p) ==
    {i \in 1..Len(rs) : rs[i].product = p /\ rs[i].is_visible}

RECURSIVE SumRatings(_, _)
SumRatings(rs, idx) ==
    IF idx = {} THEN 0
    ELSE LET i == CHOOSE j \in idx : TRUE
         IN  rs[i].rating + SumRatings(rs, idx \ {i})

\* round(sum / n, 2) in hundredths (no mean of at most seven ratings is a tie)
Round2(sum, n) == (200 * sum + n) \div (2 * n)

\* Review.update_product_rating: recompute only when a visible review exists
update_product_rating(rows, rs, p) ==
    LET vis == VisibleReviews(rs, p)
    IN  IF vis # {}
        THEN [rows EXCEPT ![p].average_rating = Round2(SumRatings(rs, vis), Cardinality(vis)),
                          ![p].total_reviews = Cardinality(vis)]
        ELSE rows

\* the aggregates over the visible reviews of product p:
\* <<mean of the visible ratings in hundredths, number of visible reviews>>
VisibleAggregate(rs, p) ==
    LET vis == VisibleReviews(rs, p)
    IN  IF vis = {} THEN <<0, 0>>
        ELSE <<Round2(SumRatings(rs, vis), Cardinality(vis)), Cardinality(vis)>>

\* perform_create without its duplicate check
NeverReviewed(u, p) == FALSE

\* ReviewViewSet.perform_create: the duplicate check
AlreadyReviewed(u, p) ==
    \E i \in 1..Len(reviews) : reviews[i].user = u /\ reviews[i].product = p

\* Review.Meta.constraints: one_review_per_user_product
UniqueReview(rs) ==
    \A i, j \in 1..Len(rs) :
        (rs[i].user = rs[j].user /\ rs[i].product = rs[j].product) => i = j

\* ReviewViewSet.perform_create: the verified-purchase lookup
HasDeliveredPurchase(u, p) ==
    \E i \in 1..Len(orders) :
        /\ orders[i].user = u
        /\ orders[i].status = "delivered"
        /\ \E k \in 1..Len(orders[i].items) : orders[i].items[k].product = p

\* a Review row as constructed: the field defaults, no OrderItem referenced
NewReview(u, p, r, verified) ==
    [user |-> u, product |-> p, rating |-> r,
     is_verified_purchase |-> verified, order_item |-> <<>>,
     helpful_votes |-> 0, reported_count |-> 0, is_visible |-> TRUE,
     moderation_notes |-> 0]

\* Review.save: the test on the referenced OrderItem <<order, item>>
VerifiedByOrderItem(rv) ==
    /\ rv.order_item # <<>>
    /\ LET order == orders[rv.order_item[1]]
       IN  /\ order.user = rv.user
           /\ order.status = "delivered"
           /\ order.items[rv.order_item[2]].product = rv.product

\* Review.save recomputing the flag on every save
ReviewSavedRecomputed(rv) ==
    [rv EXCEPT !.is_verified_purchase = VerifiedByOrderItem(rv)]

\* Review.save: the row written, is_verified_purchase raised when the test passes
ReviewSaved(rv) ==
    IF ~rv.is_verified_purchase /\ VerifiedByOrderItem(rv)
    THEN [rv EXCEPT !.is_verified_purchase = TRUE]
    ELSE rv

CreateReview(u, p, r) ==
    /\ IF AlreadyReviewed(u, p)
       THEN /\ last' = Ret("create_review", "ValidationError")
            /\ UNCHANGED <<reviews, product>>
       ELSE LET rs == Append(reviews,
                        ReviewSaved(NewReview(u, p, r, HasDeliveredPurchase(u, p))))
            IN  IF UniqueReview(rs)
                THEN /\ reviews' = rs
                     /\ product' = update_product_rating(product, rs, p)
                     /\ last' = Ret("create_review", "201")
                ELSE /\ last' = Ret("create_review", "IntegrityError")
                     /\ UNCHANGED <<reviews, product>>
    /\ UNCHANGED <<cart_status, cart_items, orders, debited, movements>>

\* Review.save of the existing row i from the in-memory instance rv
SaveReview(i, rv) ==
    /\ reviews' = [reviews EXCEPT ![i] = ReviewSaved(rv)]
    /\ product' = update_product_rating(product, reviews', rv.product)

\* the OrderItem rows a review can reference, as <<order, item>>
OrderItemRefs ==
    {ref \in (1..Len(orders)) \X (1..Cardinality(Products)) :
        ref[2] <= Len(orders[ref[1]].items)}

\* Review(user, product, rating, order_item).save() on a new row: the flag
\* starts at its default, the unique constraint is the database's
SaveNewReview(u, p, r, oi) ==
    /\ oi = <<>> \/ oi \in OrderItemRefs
    /\ LET rs == Append(reviews,
                    ReviewSaved([NewReview(u, p, r, FALSE) EXCEPT !.order_item = oi]))
       IN  IF UniqueReview(rs)
           THEN /\ reviews' = rs
                /\ product' = update_product_rating(product, rs, p)
                /\ last' = Ret("Review.save", "saved")
           ELSE /\ last' = Ret("Review.save", "IntegrityError")
                /\ UNCHANGED <<reviews, product>>
    /\ UNCHANGED <<cart_status, cart_items, orders, debited, movements>>

\* reports at which a review is hidden
ReportThreshold == 5

\* report() hiding one report late
ReportedLate(rv) ==
    LET counted == [rv EXCEPT !.reported_count = @ + 1]
    IN  IF counted.reported_count > ReportThreshold
        THEN [counted EXCEPT !.is_visible = FALSE, !.moderation_notes = @ + 1]
        ELSE counted

\* the instance after report() has counted and, at the threshold, hidden it
Reported(rv) ==
    LET counted == [rv EXCEPT !.reported_count = @ + 1]
    IN  IF counted.reported_count >= ReportThreshold
        THEN [counted EXCEPT !.is_visible = FALSE, !.moderation_notes = @ + 1]
        ELSE counted

\* Review.report
ReportReview(i) ==
    /\ i \in 1..Len(reviews)
    /\ SaveReview(i, Reported(reviews[i]))
    /\ last' = Ret("report", "saved")
    /\ UNCHANGED <<cart_status, cart_items, orders, debited, movements>>

\* ReviewViewSet.report: get_object orders the queryset by '-created', a
\* field Review does not have, and past it the action compares
\* F('reports') + 1, an expression over a field Review does not have, with 5.
\* The request ends in an unhandled exception before review.save().
ReportEndpoint(i) ==
    /\ i \in 1..Len(reviews)
    /\ last' = Ret("reviews-report", "500")
    /\ UNCHANGED <<product, reviews, cart_status, cart_items, orders, debited,
                   movements>>

\* Review.vote_helpful
VoteHelpful(i) ==
    /\ i \in 1..Len(reviews)
    /\ SaveReview(i, [reviews[i] EXCEPT !.helpful_votes = @ + 1])
    /\ last' = Ret("vote_helpful", "saved")
    /\ UNCHANGED <<cart_status, cart_items, orders, debited, movements>>

\* ------------------------------------------------------------ WishlistItem
\* the frame of a wishlist request
WishlistOnly ==
    UNCHANGED <<product, cart_status, cart_items, orders, debited, reviews,
                movements, addresses, nops, pc, ck>>

\* WishlistItem.objects.filter(user, product).exists()
InWishlist(u, p) ==
    \E i \in 1..Len(wishlist) : wishlist[i].user = u /\ wishlist[i].product = p

\* WishlistItem.Meta.unique_together
UniqueWishlist(ws) ==
    \A i, j \in 1..Len(ws) :
        (ws[i].user = ws[j].user /\ ws[i].product = ws[j].product) => i = j

\* the rows left when the first row of (u, p) is deleted
RECURSIVE WithoutFirst(_, _, _)
WithoutFirst(ws, u, p) ==
    IF ws = <<>> THEN <<>>
    ELSE IF Head(ws).user = u /\ Head(ws).product = p THEN Tail(ws)
    ELSE <<Head(ws)>> \o WithoutFirst(Tail(ws), u, p)

\* the rows WishlistViewSet.toggle leaves: delete when present, else create
Toggled(ws, u, p) ==
    IF \E i \in 1..Len(ws) : ws[i].user = u /\ ws[i].product = p
    THEN WithoutFirst(ws, u, p)
    ELSE Append(ws, [user |-> u, product |-> p])

\* what a request may name as product_id: a product, one that does not
\* exist, or nothing
ProductIds == Products \cup {"p9", ""}

\* WishlistViewSet.toggle
ToggleWishlist(u, pid) ==
    /\ IF pid \notin Products
       THEN /\ last' = Ret("wishlist-toggle", "ValidationError")
            /\ UNCHANGED wishlist
       ELSE LET ws == Toggled(wishlist, u, pid)
            IN  IF UniqueWishlist(ws)
                THEN /\ wishlist' = ws
                     /\ last' = Ret("wishlist-toggle",
                                    IF InWishlist(u, pid) THEN "removed" ELSE "added")
                ELSE /\ last' = Ret("wishlist-toggle", "IntegrityError")
                     /\ UNCHANGED wishlist
    /\ WishlistOnly

\* Product has an attribute is_available: it has none, the field is 'available'
ProductHasIsAvailable == FALSE

\* POST to the wishlist: WishlistItemSerializer.validate_product reads
\* product.is_available during is_valid(); then perform_create's duplicate
\* check; then WishlistItemSerializer.create, which hands 'user' to
\* objects.create() twice
CreateWishlistItem(u, p) ==
    /\ last' = Ret("wishlist-create",
                   IF ~ProductHasIsAvailable THEN "AttributeError"
                   ELSE IF InWishlist(u, p) THEN "ValidationError"
                   ELSE "TypeError")
    /\ UNCHANGED wishlist
    /\ WishlistOnly

\* ---------------------------------------------------------------- Address
ADDRESS_TYPES == {"shipping", "billing"}

\* the frame of an Address save
AddressOnly ==
    UNCHANGED <<product, cart_status, cart_items, orders, debited, reviews,
                movements, wishlist, nops, pc, ck>>

\* Meta.constraints: UniqueConstraint(fields=['user', 'type', 'is_default'])
UniqueAddresses(rows) ==
    \A i, j \in 1..Len(rows) :
        (/\ rows[i].user = rows[j].user
         /\ rows[i].type = rows[j].type
         /\ rows[i].is_default = rows[j].is_default) => i = j

\* save(): filter(user, type, is_default=True).exclude(id=self.id)
\*         .update(is_default=False); self is row i, or 0 when not yet saved
Demoted(rows, u, t, i) ==
    [k \in 1..Len(rows) |->
        IF k # i /\ rows[k].user = u /\ rows[k].type = t /\ rows[k].is_default
        THEN [rows[k] EXCEPT !.is_default = FALSE]
        ELSE rows[k]]

\* Address.save of the instance a, which is row i (0: a new row): the update
\* and the row write are two statements, each under the unique constraint;
\* <<rows left, outcome>>
address_save(rows, a, i) ==
    LET rows1 == IF a.is_default THEN Demoted(rows, a.user, a.type, i) ELSE rows
        rows2 == IF i = 0 THEN Append(rows1, a) ELSE [rows1 EXCEPT ![i] = a]
    IN  IF ~UniqueAddresses(rows1) THEN <<rows, "IntegrityError">>
        ELSE IF ~UniqueAddresses(rows2) THEN <<rows1, "IntegrityError">>
        ELSE <<rows2, "saved">>

\* Address(user=u, type=t, is_default=d).save()
SaveNewAddress(u, t, d) ==
    /\ LET r == address_save(addresses,
                             [user |-> u, type |-> t, is_default |-> d], 0)
       IN  /\ addresses' = r[1]
           /\ last' = Ret("Address.save", r[2])
    /\ AddressOnly

\* the saved address i with is_default set to d, saved again
SaveAddress(i, d) ==
    /\ i \in 1..Len(addresses)
    /\ LET r == address_save(addresses, [addresses[i] EXCEPT !.is_default = d], i)
       IN  /\ addresses' = r[1]
           /\ last' = Ret("Address.save", r[2])
    /\ AddressOnly

\* ------------------------------------------------------------------- Next
\* the shop: carts, checkout, orders, catalogue changes and review creation
Next ==
    \/ \E p \in Products, q \in AdjustQuantities, op \in {"remove", "add"} :
          Step /\ AdjustStock(p, q, op)
    \/ \E p \in Products, pr \in Prices : Step /\ UpdateProductPrice(p, pr)
    \/ \E p \in Products, b \in BOOLEAN : Step /\ SetAvailable(p, b)
    \/ \E u \in Users, p \in Products, q \in CartQuantities :
          Step /\ AddCartItem(u, p, q)
    \/ \E u \in Users : Step /\ CartCheckout(u)
    \/ \E u \in Users : Step /\ CheckoutEndpoint(u)
    \/ \E u \in Users : Step /\ CreateOrderEndpoint(u)
    \/ \E i \in 1..MaxOps : Step /\ CancelOrder(i)
    \/ \E i \in 1..MaxOps, s \in STATUS_CHOICES \cup {"canceled"} :
          Step /\ UpdateOrderStatus(i, s)
    \/ \E u \in Users, p \in Products, r \in {5} : Step /\ CreateReview(u, p, r)
    \/ \E u \in Users : Step /\ ListOrders(u)
    \/ \E u \in Users, i \in 1..MaxOps : Step /\ RetrieveOrder(u, i)

Spec == Init /\ [][Next]_vars

\* the carts alone: lines are added and changed while the catalogue changes
NextCart ==
    \/ \E u \in Users, p \in Products, q \in CartQuantities :
          Step /\ AddCartItem(u, p, q)
    \/ \E u \in Users, k \in 1..Cardinality(Products), q \in CartQuantities :
          Step /\ UpdateCartItem(u, k, q)
    \/ \E p \in Products, b \in BOOLEAN : Step /\ SetAvailable(p, b)
    \/ \E p \in Products, q \in AdjustQuantities, op \in {"remove", "add"} :
          Step /\ AdjustStock(p, q, op)

SpecCart == Init /\ [][NextCart]_vars

\* order creation through OrderSerializer.create alone, with the writes that
\* change an order's status
NextPending ==
    \/ \E u \in Users, p \in Products : Step /\ AddCartItem(u, p, 1)
    \/ \E u \in Users : Step /\ CheckoutEndpoint(u)
    \/ \E u \in Users : Step /\ CreateOrderEndpoint(u)
    \/ \E i \in 1..MaxOps : Step /\ CancelOrder(i)
    \/ \E i \in 1..MaxOps, st \in STATUS_CHOICES : Step /\ UpdateOrderStatus(i, st)

SpecPending == Init /\ [][NextPending]_vars

\* the order ledger: carts are checked out through Cart.checkout, orders are
\* cancelled and their status is written; stock changes in no other way
NextLedger ==
    \/ \E u \in Users, p \in Products, q \in CartQuantities \ {0} :
          /\ AddCartItem(u, p, q)
          /\ UNCHANGED <<nops, pc, ck, wishlist, addresses>>
    \/ \E u \in Users :
          /\ Len(orders) < MaxOrders
          /\ CartCheckout(u)
          /\ UNCHANGED <<nops, pc, ck, wishlist, addresses>>
    \/ \E i \in 1..MaxOrders :
          /\ i \in 1..Len(orders)
          /\ \A p \in Products :
                RestoreStock(product, orders[i].items)[p].stock <= MaxStock
          /\ CancelOrder(i)
          /\ UNCHANGED <<nops, pc, ck, wishlist, addresses>>
    \/ \E i \in 1..MaxOrders, st \in STATUS_CHOICES :
          /\ UpdateOrderStatus(i, st)
          /\ UNCHANGED <<nops, pc, ck, wishlist, addresses>>

SpecLedger == Init /\ [][NextLedger]_vars

\* the address book alone
NextAddress ==
    \/ \E u \in Users, t \in ADDRESS_TYPES, d \in BOOLEAN :
          /\ Len(addresses) < MaxAddresses
          /\ SaveNewAddress(u, t, d)
    \/ \E i \in 1..MaxAddresses, d \in BOOLEAN : SaveAddress(i, d)

SpecAddress == Init /\ [][NextAddress]_vars

\* the wishlists alone
NextWishlist ==
    \/ \E u \in Users, pid \in ProductIds : ToggleWishlist(u, pid)
    \/ \E u \in Users, p \in Products : CreateWishlistItem(u, p)

SpecWishlist == Init /\ [][NextWishlist]_vars

\* the stock ledger alone: adjust_stock calls and StockMovement saves
NextStock ==
    \/ \E p \in Products, q \in AdjustQuantities, op \in {"remove", "add"} :
          /\ AdjustedStock(product[p].stock, q, op) <= MaxStock
          /\ AdjustStock(p, q, op)
          /\ UNCHANGED <<nops, pc, ck, wishlist, addresses>>
    \/ \E p \in Products, t \in MOVEMENT_TYPES, q \in MovementQuantities :
          /\ MovementStock(product[p].stock, t, q) <= MaxStock
          /\ \/ Len(movements) < MaxMovements
             \/ ~StockFieldOK(MovementStock(product[p].stock, t, q))
          /\ SaveStockMovement(p, t, q)
          /\ UNCHANGED <<nops, pc, ck, wishlist, addresses>>

SpecStock == Init /\ [][NextStock]_vars

\* the movement ledger: StockMovement rows are saved and saved again, beside
\* adjust_stock calls
NextMovement ==
    \/ \E p \in Products, q \in AdjustQuantities, op \in {"remove", "add"} :
          /\ AdjustedStock(product[p].stock, q, op) <= MaxStock
          /\ AdjustStock(p, q, op)
          /\ UNCHANGED <<nops, pc, ck, wishlist, addresses>>
    \/ \E p \in Products, t \in MOVEMENT_TYPES, q \in MovementQuantities :
          /\ MovementStock(product[p].stock, t, q) <= MaxStock
          /\ \/ Len(movements) < MaxMovements
             \/ ~StockFieldOK(MovementStock(product[p].stock, t, q))
          /\ SaveStockMovement(p, t, q)
          /\ UNCHANGED <<nops, pc, ck, wishlist, addresses>>
    \/ \E i \in 1..MaxMovements :
          /\ i \in 1..Len(movements)
          /\ MovementStock(product[movements[i].product].stock,
                           movements[i].type, movements[i].quantity) <= MaxStock
          /\ ResaveStockMovement(i)
          /\ UNCHANGED <<nops, pc, ck, wishlist, addresses>>

SpecMovement == Init /\ [][NextMovement]_vars

\* the reviews alone: any user reviews any product with any rating
NextReview ==
    \/ \E u \in Users, p \in Products, r \in Ratings :
          /\ CreateReview(u, p, r)
          /\ UNCHANGED <<nops, pc, ck, wishlist, addresses>>

SpecReview == Init /\ [][NextReview]_vars

\* the users who write reviews in the rating ledger
Reviewers == Users \cup {"u3"}

\* the product they review
RatedProducts == {"p1"}

\* the ratings they give: thirds and halves occur among the means
RatingsGiven == {1, 2, 5}

TotalReports == SumSeq([i \in 1..Len(reviews) |-> reviews[i].reported_count])

TotalVotes == SumSeq([i \in 1..Len(reviews) |-> reviews[i].helpful_votes])

\* the rating ledger: reviews are created, reported and voted helpful
NextRating ==
    \/ \E u \in Reviewers, p \in RatedProducts, r \in RatingsGiven :
          /\ CreateReview(u, p, r)
          /\ UNCHANGED <<nops, pc, ck, wishlist, addresses>>
    \/ \E i \in 1..Cardinality(Reviewers) :
          /\ TotalReports < MaxReports
          /\ ReportReview(i)
          /\ UNCHANGED <<nops, pc, ck, wishlist, addresses>>
    \/ \E i \in 1..Cardinality(Reviewers) :
          /\ TotalVotes < MaxVotes
          /\ VoteHelpful(i)
          /\ UNCHANGED <<nops, pc, ck, wishlist, addresses>>

SpecRating == Init /\ [][NextRating]_vars

\* reports alone: through the model method and through the endpoint
NextReport ==
    \/ \E u \in Reviewers, p \in RatedProducts :
          /\ CreateReview(u, p, 5)
          /\ UNCHANGED <<nops, pc, ck, wishlist, addresses>>
    \/ \E i \in 1..Cardinality(Reviewers) :
          /\ TotalReports < MaxReports
          /\ ReportReview(i)
          /\ UNCHANGED <<nops, pc, ck, wishlist, addresses>>
    \/ \E i \in 1..Cardinality(Reviewers) :
          /\ ReportEndpoint(i)
          /\ UNCHANGED <<nops, pc, ck, wishlist, addresses>>

SpecReport == Init /\ [][NextReport]_vars

\* the purchase ledger: u1 buys, orders change status, both users review p1,
\* with or without a reference to an OrderItem, and reviews are saved again
NextVerified ==
    \/ \E p \in Products :
          /\ AddCartItem("u1", p, 1)
          /\ UNCHANGED <<nops, pc, ck, wishlist, addresses>>
    \/ /\ Len(orders) < MaxOrders
       /\ CartCheckout("u1")
       /\ UNCHANGED <<nops, pc, ck, wishlist, addresses>>
    \/ \E i \in 1..MaxOrders, st \in {"pending", "delivered"} :
          /\ UpdateOrderStatus(i, st)
          /\ UNCHANGED <<nops, pc, ck, wishlist, addresses>>
    \/ \E u \in Users, p \in RatedProducts, r \in {5} :
          /\ CreateReview(u, p, r)
          /\ UNCHANGED <<nops, pc, ck, wishlist, addresses>>
    \/ \E u \in Users, p \in RatedProducts, r \in {5},
          oi \in {<<>>} \cup OrderItemRefs :
          /\ SaveNewReview(u, p, r, oi)
          /\ UNCHANGED <<nops, pc, ck, wishlist, addresses>>
    \/ \E i \in 1..Cardinality(Users) :
          /\ TotalVotes < MaxVotes
          /\ VoteHelpful(i)
          /\ UNCHANGED <<nops, pc, ck, wishlist, addresses>>

SpecVerified == Init /\ [][NextVerified]_vars

\* ------------------------------------------- Cart.checkout, statement by statement
\* Two requests run Cart.checkout at once.  Nothing in it takes a lock or opens
\* a transaction, so each query and each save is a step of its own.

\* lines 204-208: the validation loop
CkValidate(u) ==
    /\ pc[u] = "idle"
    /\ IF CheckoutValid(product, cart_items[u])
       THEN /\ pc' = [pc EXCEPT ![u] = "validated"]
            /\ UNCHANGED ck
       ELSE /\ pc' = [pc EXCEPT ![u] = "done"]
            /\ ck' = [ck EXCEPT ![u].result = "False"]
    /\ UNCHANGED <<product, cart_status, cart_items, orders, debited, reviews,
                   movements, last, nops>>

\* lines 211-217: Order.objects.create, then the second items query
CkCreateOrder(u) ==
    /\ pc[u] = "validated"
    /\ orders' = Append(orders, NewOrder(u, total_price(u)))
    /\ debited' = Append(debited, NoDebit)
    /\ ck' = [ck EXCEPT ![u].order = Len(orders) + 1, ![u].todo = cart_items[u]]
    /\ pc' = [pc EXCEPT ![u] = IF cart_items[u] = <<>> THEN "finish" ELSE "item"]
    /\ UNCHANGED <<product, cart_status, cart_items, reviews, movements, last, nops>>

\* lines 218-223: item.product is fetched and the OrderItem row is created
CkCreateItem(u) ==
    /\ pc[u] = "item"
    /\ LET item == Head(ck[u].todo)
           row == product[item.product]
       IN  /\ ck' = [ck EXCEPT ![u].mem = row]
           /\ orders' = [orders EXCEPT ![ck[u].order].items =
                            Append(@, [product |-> item.product,
                                       quantity |-> item.quantity,
                                       price |-> row.price])]
    /\ pc' = [pc EXCEPT ![u] = "adjust"]
    /\ UNCHANGED <<product, cart_status, cart_items, debited, reviews, movements,
                   last, nops>>

\* line 225: adjust_stock on the instance fetched before; save() writes its row
CkAdjust(u) ==
    /\ pc[u] = "adjust"
    /\ LET item == Head(ck[u].todo)
           p == item.product
           r == adjust_stock([product EXCEPT ![p] = ck[u].mem], p, item.quantity, "remove")
       IN  /\ product' = IF r[2] = "True" THEN r[1] ELSE product
           /\ debited' = IF r[2] = "True"
                         THEN [debited EXCEPT ![ck[u].order][p] = @ + item.quantity]
                         ELSE debited
           /\ IF r[2] = "IntegrityError"
              THEN /\ pc' = [pc EXCEPT ![u] = "done"]
                   /\ ck' = [ck EXCEPT ![u].result = "IntegrityError"]
              ELSE /\ pc' = [pc EXCEPT ![u] = IF Len(ck[u].todo) = 1 THEN "finish" ELSE "item"]
                   /\ ck' = [ck EXCEPT ![u].todo = Tail(@)]
    /\ UNCHANGED <<cart_status, cart_items, orders, reviews, movements, last, nops>>

\* lines 228-231: the cart is marked and (True, order) returned
CkFinish(u) ==
    /\ pc[u] = "finish"
    /\ cart_status' = [cart_status EXCEPT ![u] = CheckedOut]
    /\ pc' = [pc EXCEPT ![u] = "done"]
    /\ ck' = [ck EXCEPT ![u].result = "True"]
    /\ UNCHANGED <<product, cart_items, orders, debited, reviews, movements, last, nops>>

NextConc ==
    \/ \E u \in Users, p \in Products, q \in CartQuantities :
          /\ pc[u] = "idle"
          /\ AddCartItem(u, p, q)
          /\ UNCHANGED <<nops, pc, ck, wishlist, addresses>>
    \/ \E u \in Users : CkValidate(u) /\ UNCHANGED <<wishlist, addresses>>
    \/ \E u \in Users : CkCreateOrder(u) /\ UNCHANGED <<wishlist, addresses>>
    \/ \E u \in Users : CkCreateItem(u) /\ UNCHANGED <<wishlist, addresses>>
    \/ \E u \in Users : CkAdjust(u) /\ UNCHANGED <<wishlist, addresses>>
    \/ \E u \in Users : CkFinish(u) /\ UNCHANGED <<wishlist, addresses>>

SpecConc == Init /\ [][NextConc]_vars

\* --------------------------------- review creation, statement by statement
\* Two requests create a review at once.  ReviewViewSet.perform_create and
\* Review.save open no transaction and take no lock: the insert, each
\* aggregate query and the Product save are steps of their own.

\* the locals of an in-flight review creation
ReviewLocals(p, r) ==
    [p |-> p, rating |-> r, mem |-> product[p], avg |-> 0, seen |-> 0,
     count |-> 0, result |-> "none"]

\* the Product save computing the aggregates anew as it writes
FreshAggregates(u) == VisibleAggregate(reviews, ck[u].p)

\* the aggregates update_product_rating assigns: the ones its queries returned
WrittenAggregates(u) == <<ck[u].avg, ck[u].count>>

\* views.py 414-425: the serializer has fetched the Product; duplicate check
RvValidate(u, p, r) ==
    /\ pc[u] = "idle"
    /\ IF AlreadyReviewed(u, p)
       THEN /\ pc' = [pc EXCEPT ![u] = "done"]
            /\ ck' = [ck EXCEPT ![u] = [ReviewLocals(p, r) EXCEPT
                                           !.result = "ValidationError"]]
       ELSE /\ pc' = [pc EXCEPT ![u] = "rv_insert"]
            /\ ck' = [ck EXCEPT ![u] = ReviewLocals(p, r)]
    /\ UNCHANGED <<product, cart_status, cart_items, orders, debited, reviews,
                   movements, last, nops>>

\* models.py 375-384: super().save() inserts the row under the unique constraint
RvInsert(u) ==
    /\ pc[u] = "rv_insert"
    /\ LET rs == Append(reviews,
                    ReviewSaved(NewReview(u, ck[u].p, ck[u].rating,
                                          HasDeliveredPurchase(u, ck[u].p))))
       IN  IF UniqueReview(rs)
           THEN /\ reviews' = rs
                /\ pc' = [pc EXCEPT ![u] = "rv_avg"]
                /\ UNCHANGED ck
           ELSE /\ pc' = [pc EXCEPT ![u] = "done"]
                /\ ck' = [ck EXCEPT ![u].result = "IntegrityError"]
                /\ UNCHANGED reviews
    /\ UNCHANGED <<product, cart_status, cart_items, orders, debited, movements,
                   last, nops>>

\* models.py 390-394: reviews.exists() and the Avg('rating') query
RvAverage(u) ==
    /\ pc[u] = "rv_avg"
    /\ LET vis == VisibleReviews(reviews, ck[u].p)
       IN  IF vis = {}
           THEN /\ pc' = [pc EXCEPT ![u] = "done"]
                /\ ck' = [ck EXCEPT ![u].result = "201"]
           ELSE /\ pc' = [pc EXCEPT ![u] = "rv_count"]
                /\ ck' = [ck EXCEPT
                            ![u].avg = Round2(SumRatings(reviews, vis), Cardinality(vis)),
                            ![u].seen = Cardinality(vis)]
    /\ UNCHANGED <<product, cart_status, cart_items, orders, debited, reviews,
                   movements, last, nops>>

\* models.py 396: reviews.count(), a query of its own
RvCount(u) ==
    /\ pc[u] = "rv_count"
    /\ ck' = [ck EXCEPT ![u].count = Cardinality(VisibleReviews(reviews, ck[u].p))]
    /\ pc' = [pc EXCEPT ![u] = "rv_write"]
    /\ UNCHANGED <<product, cart_status, cart_items, orders, debited, reviews,
                   movements, last, nops>>

\* models.py 397: product.save() writes the row of the instance fetched at
\* validation, with the two aggregates assigned
RvWrite(u) ==
    /\ pc[u] = "rv_write"
    /\ product' = [product EXCEPT ![ck[u].p] =
                      [ck[u].mem EXCEPT !.average_rating = WrittenAggregates(u)[1],
                                        !.total_reviews = WrittenAggregates(u)[2]]]
    /\ pc' = [pc EXCEPT ![u] = "done"]
    /\ ck' = [ck EXCEPT ![u].result = "201"]
    /\ last' = Ret("create_review", u)
    /\ UNCHANGED <<cart_status, cart_items, orders, debited, reviews, movements, nops>>

NextConcReview ==
    \/ \E u \in Users, p \in RatedProducts, r \in RatingsGiven :
          RvValidate(u, p, r) /\ UNCHANGED <<wishlist, addresses>>
    \/ \E u \in Users : RvInsert(u) /\ UNCHANGED <<wishlist, addresses>>
    \/ \E u \in Users : RvAverage(u) /\ UNCHANGED <<wishlist, addresses>>
    \/ \E u \in Users : RvCount(u) /\ UNCHANGED <<wishlist, addresses>>
    \/ \E u \in Users : RvWrite(u) /\ UNCHANGED <<wishlist, addresses>>

SpecConcReview == Init /\ [][NextConcReview]_vars

\* ------------------------------ a Review save beside an adjust_stock call
\* the locals of an adjust_stock call: mem is the Product instance it runs on
StockLocals(p, q, operation) ==
    [p |-> p, q |-> q, operation |-> operation, mem |-> product[p],
     result |-> "none"]

\* the caller fetches the Product
AsFetch(u, p, q, operation) ==
    /\ pc[u] = "idle"
    /\ pc' = [pc EXCEPT ![u] = "as_save"]
    /\ ck' = [ck EXCEPT ![u] = StockLocals(p, q, operation)]
    /\ UNCHANGED <<product, cart_status, cart_items, orders, debited, reviews,
                   movements, last, nops>>

\* models.py 109-120: adjust_stock on that instance; save() writes its row
AsSave(u) ==
    /\ pc[u] = "as_save"
    /\ LET p == ck[u].p
           r == adjust_stock([product EXCEPT ![p] = ck[u].mem], p, ck[u].q,
                             ck[u].operation)
       IN  /\ product' = IF r[2] = "True" THEN r[1] ELSE product
           /\ ck' = [ck EXCEPT ![u].result = r[2]]
           /\ last' = Ret("adjust_stock", r[2])
    /\ pc' = [pc EXCEPT ![u] = "done"]
    /\ UNCHANGED <<cart_status, cart_items, orders, debited, reviews, movements, nops>>

NextConcRow ==
    \/ \E u \in Users, p \in RatedProducts, r \in RatingsGiven :
          RvValidate(u, p, r) /\ UNCHANGED <<wishlist, addresses>>
    \/ \E u \in Users : RvInsert(u) /\ UNCHANGED <<wishlist, addresses>>
    \/ \E u \in Users : RvAverage(u) /\ UNCHANGED <<wishlist, addresses>>
    \/ \E u \in Users : RvCount(u) /\ UNCHANGED <<wishlist, addresses>>
    \/ \E u \in Users : RvWrite(u) /\ UNCHANGED <<wishlist, addresses>>
    \/ \E u \in Users, p \in RatedProducts, q \in AdjustQuantities,
          op \in {"remove", "add"} :
          AsFetch(u, p, q, op) /\ UNCHANGED <<wishlist, addresses>>
    \/ \E u \in Users : AsSave(u) /\ UNCHANGED <<wishlist, addresses>>

SpecConcRow == Init /\ [][NextConcRow]_vars

\* ====================================================================== claims

\* C1: after any sequence of adjust_stock calls and StockMovement saves, the
\* stock of every Product row is >= 0.
C1_StockNonNegative == \A p \in Products : product[p].stock >= 0

\* a StockMovement that would take the stock below zero was refused
C1_Witness ==
    /\ last = Ret("stock_movement", "IntegrityError")
    /\ \E p \in Products : product[p].stock = 0
    /\ movements # <<>>

\* C9: adjust_stock(quantity, 'remove') returns True and lowers the stock by
\* exactly quantity when stock >= quantity; otherwise it returns False and
\* leaves the Product rows as they were.
C9_RemoveContract ==
    [][\A p \in Products, q \in AdjustQuantities :
         AdjustStock(p, q, "remove") =>
            IF product[p].stock >= q
            THEN /\ last'.ret = "True"
                 /\ product'[p].stock = product[p].stock - q
                 /\ \A o \in Products \ {p} : product'[o] = product[o]
            ELSE /\ last'.ret = "False"
                 /\ product' = product]_vars

\* a remove larger than the stock was refused and one within it had been served
C9_Witness ==
    /\ last = Ret("adjust_stock", "False")
    /\ \E p \in Products : product[p].stock = 0 /\ InitStock > 0

\* every line of the cart is available and within stock
LinesInStock(u) ==
    \A i \in 1..Len(cart_items[u]) :
        /\ product[cart_items[u][i].product].available
        /\ cart_items[u][i].quantity <= product[cart_items[u][i].product].stock

\* C2: Cart.checkout succeeds only if every cart line is available and within
\* stock; otherwise it fails and creates no Order or OrderItem, changes no
\* Product stock and leaves the cart's items and status as they were.
C2_CheckoutGuard ==
    [][\A u \in Users :
         CartCheckout(u) =>
            /\ (last'.ret = "True" => LinesInStock(u))
            /\ (~LinesInStock(u) =>
                   /\ last'.ret = "False"
                   /\ orders' = orders
                   /\ product' = product
                   /\ cart_items' = cart_items
                   /\ cart_status' = cart_status)]_vars

\* a checkout was refused for a cart holding a line that is out of stock or
\* unavailable
C2_Witness ==
    /\ last = Ret("Cart.checkout", "False")
    /\ orders = <<>>
    /\ \E u \in Users : cart_items[u] # <<>> /\ ~LinesInStock(u)

\* quantity of product p over the lines of user u's cart
CartQty(u, p) ==
    SumSeq([i \in 1..Len(cart_items[u]) |->
              IF cart_items[u][i].product = p THEN cart_items[u][i].quantity ELSE 0])

\* C3: two concurrent checkouts whose quantities of one product together exceed
\* its stock do not both succeed: exactly one does, and the final stock is >= 0.
C3_ExactlyOneSucceeds ==
    \A u1, u2 \in Users, p \in Products :
        ( /\ u1 # u2
          /\ pc[u1] = "done" /\ pc[u2] = "done"
          /\ CartQty(u1, p) + CartQty(u2, p) > InitStock )
        => /\ (ck[u1].result = "True") # (ck[u2].result = "True")
           /\ product[p].stock >= 0

\* C4: the total_amount of every Order equals the sum over its OrderItems of
\* price * quantity, the prices being those stored at checkout.
C4_TotalIsSumOfItems ==
    \A i \in 1..Len(orders) : orders[i].total_amount = ItemsTotal(orders[i])

\* an order of two lines whose product has changed price since
C4_Witness ==
    \E i \in 1..Len(orders) :
        /\ Len(orders[i].items) = 2
        /\ orders[i].total_amount > 0
        /\ \E k \in 1..2 :
              product[orders[i].items[k].product].price # orders[i].items[k].price

\* C5: once created, the OrderItems of an Order (price, quantity) and its
\* total_amount are changed by no later request.
C5_OrderItemsFrozen ==
    [][\A i \in 1..Len(orders) :
          /\ Len(orders') >= i
          /\ orders'[i].items = orders[i].items
          /\ orders'[i].total_amount = orders[i].total_amount]_vars

\* an order with a priced line was cancelled and kept its total
C5_Witness ==
    /\ last = Ret("cancel_order", "True")
    /\ \E i \in 1..Len(orders) :
          /\ orders[i].status = "cancelled"
          /\ orders[i].total_amount > 0

\* C6: a successful checkout lowers the stock of each product in the cart by
\* the line's quantity, creates one OrderItem per line with the same product
\* and quantity, and sets the cart's status to checked_out.
C6_CheckoutEffect ==
    [][\A u \in Users :
         ( \/ CartCheckout(u) /\ last'.ret = "True"
           \/ CheckoutEndpoint(u) /\ last'.ret = "200" )
         => /\ Len(orders') = Len(orders) + 1
            /\ LET new == orders'[Len(orders')]
               IN  /\ Len(new.items) = Len(cart_items[u])
                   /\ \A k \in 1..Len(cart_items[u]) :
                         /\ new.items[k].product = cart_items[u][k].product
                         /\ new.items[k].quantity = cart_items[u][k].quantity
                         /\ product'[cart_items[u][k].product].stock =
                              product[cart_items[u][k].product].stock
                                - cart_items[u][k].quantity
            /\ cart_status'[u] = "checked_out"]_vars

\* C7: cancelling a pending or processing Order sets it to cancelled and
\* raises each product's stock by exactly what the order's checkout debited,
\* the debit being the fall in stock that checkout made.
C7_CancelRestores ==
    [][/\ \A i \in 1..Len(orders) :
            (CancelOrder(i) /\ orders[i].status \in {"pending", "processing"})
            => /\ last'.ret = "True"
               /\ orders'[i].status = "cancelled"
               /\ \A p \in Products :
                     product'[p].stock = product[p].stock + debited[i][p]
       /\ \A u \in Users :
            (CartCheckout(u) /\ last'.ret = "True")
            => \A p \in Products :
                  product'[p].stock = product[p].stock - debited'[Len(orders')][p]
      ]_vars

\* checkout then cancel: the one order is cancelled and every stock is back
C7_Witness ==
    /\ last = Ret("cancel_order", "True")
    /\ Len(orders) = 1
    /\ orders[1].status = "cancelled"
    /\ \A p \in Products : debited[1][p] > 0 /\ product[p].stock = InitStock

\* C8: cancel_order on a shipped, delivered or cancelled Order returns failure
\* and leaves the order and every product's stock unchanged.
C8_CancelRejected ==
    [][\A i \in 1..Len(orders) :
          (CancelOrder(i) /\ orders[i].status \in {"shipped", "delivered", "cancelled"})
          => /\ last'.ret = "False"
             /\ orders' = orders
             /\ product' = product]_vars

\* a second cancel of a cancelled order was refused, the stock credited once
C8_Witness ==
    /\ last = Ret("cancel_order", "False")
    /\ Len(orders) = 1
    /\ orders[1].status = "cancelled"
    /\ \E p \in Products : debited[1][p] > 0 /\ product[p].stock = InitStock

\* C11: under sequential execution every Product's average_rating is the mean
\* of the ratings of its visible reviews rounded to 2 decimals, its
\* total_reviews is their number, and average_rating lies within [0, 5].
C11_AggregatesMatchVisible ==
    \A p \in Products :
        /\ <<product[p].average_rating, product[p].total_reviews>>
              = VisibleAggregate(reviews, p)
        /\ product[p].average_rating \in 0..500

\* C12: the report that brings a review's reported_count to 5 hides it, and
\* the save of that report leaves the product's average_rating and
\* total_reviews computed without it, also when no visible review remains.
C12_HidingRemovesRating ==
    [][\A i \in 1..Len(reviews) :
          (ReportReview(i) /\ reviews[i].reported_count + 1 = ReportThreshold)
          => /\ ~reviews'[i].is_visible
             /\ <<product'[reviews[i].product].average_rating,
                  product'[reviews[i].product].total_reviews>>
                   = VisibleAggregate(reviews', reviews[i].product)]_vars

\* C13: report() raises reported_count by exactly 1; a review is visible while
\* its reported_count is below 5, and from the report that brings it to 5 on
\* it is hidden and a moderation note was appended by that report.
C13_ReportCountsAndHides ==
    [][/\ \A i \in 1..Len(reviews) :
            ReportReview(i) =>
               /\ reviews'[i].reported_count = reviews[i].reported_count + 1
               /\ \A j \in 1..Len(reviews) : j # i => reviews'[j] = reviews[j]
               /\ IF reviews'[i].reported_count >= ReportThreshold
                  THEN /\ ~reviews'[i].is_visible
                       /\ reviews'[i].moderation_notes = reviews[i].moderation_notes + 1
                  ELSE /\ reviews'[i].is_visible
                       /\ reviews'[i].moderation_notes = reviews[i].moderation_notes
       /\ \A i \in 1..Len(reviews') :
            reviews'[i].is_visible <=> reviews'[i].reported_count < ReportThreshold
      ]_vars

\* a hidden review was reported once more: six reports, still hidden
C13_Witness ==
    /\ last = Ret("report", "saved")
    /\ \E i \in 1..Len(reviews) :
          /\ reviews[i].reported_count = ReportThreshold + 1
          /\ ~reviews[i].is_visible
          /\ reviews[i].moderation_notes = 2
    /\ \E i \in 1..Len(reviews) :
          reviews[i].reported_count = 0 /\ reviews[i].is_visible

\* C14: a Review.save of a review that references an OrderItem of a delivered
\* order of the reviewing user for the reviewed product leaves
\* is_verified_purchase true, and no step, a later save after the order's
\* status has changed included, takes is_verified_purchase from true to false.
C14_VerifiedPurchaseOneWay ==
    [][/\ \A u \in Users, p \in Products, r \in Ratings, oi \in OrderItemRefs :
            ( /\ SaveNewReview(u, p, r, oi)
              /\ last'.ret = "saved"
              /\ VerifiedByOrderItem([NewReview(u, p, r, FALSE) EXCEPT !.order_item = oi]) )
            => reviews'[Len(reviews')].is_verified_purchase
       /\ \A i \in 1..Len(reviews) :
            (VoteHelpful(i) /\ VerifiedByOrderItem(reviews[i]))
            => reviews'[i].is_verified_purchase
       /\ \A i \in 1..Len(reviews) :
            reviews[i].is_verified_purchase
            => Len(reviews') >= i /\ reviews'[i].is_verified_purchase
      ]_vars

\* a review verified by its OrderItem was saved again after its order had
\* left the delivered status, and is still verified
C14_Witness ==
    /\ last = Ret("vote_helpful", "saved")
    /\ \E i \in 1..Len(reviews) :
          /\ reviews[i].order_item # <<>>
          /\ reviews[i].helpful_votes = 1
          /\ reviews[i].is_verified_purchase
          /\ orders[reviews[i].order_item[1]].status = "pending"

\* C15: a successful checkout of a non-empty cart creates exactly one new
\* Order, owned by the requesting user, and leaves the cart without CartItems.
C15_CheckoutOneOrderEmptyCart ==
    [][\A u \in Users :
         ( /\ cart_items[u] # <<>>
           /\ \/ CartCheckout(u) /\ last'.ret = "True"
              \/ CheckoutEndpoint(u) /\ last'.ret = "200" )
         => /\ Len(orders') = Len(orders) + 1
            /\ SubSeq(orders', 1, Len(orders)) = orders
            /\ orders'[Len(orders')].user = u
            /\ cart_items'[u] = <<>>]_vars

\* C16: a checkout of a cart with no items fails and creates no Order, at
\* every entry point: Cart.checkout, the cart checkout endpoint and order
\* creation at the orders endpoint.
C16_EmptyCartRefused ==
    [][\A u \in Users :
         ( /\ cart_items[u] = <<>>
           /\ CartCheckout(u) \/ CheckoutEndpoint(u) \/ CreateOrderEndpoint(u) )
         => /\ last'.ret \in {"False", "400", "ValidationError"}
            /\ orders' = orders]_vars

\* C17: the order list returned to a user holds exactly the Orders that user
\* owns, and order detail answers exactly for those: what is returned is a
\* function of the user's own orders and holds no other user's order.
C17_OrdersOwnedOnly ==
    [][/\ \A u \in Users :
            ListOrders(u) =>
               /\ DOMAIN last'.rows = {i \in 1..Len(orders) : orders[i].user = u}
               /\ \A i \in DOMAIN last'.rows : last'.rows[i] = orders[i]
       /\ \A u \in Users, i \in 1..MaxOps :
            RetrieveOrder(u, i) =>
               IF i <= Len(orders) /\ orders[i].user = u
               THEN last'.ret = "200" /\ last'.rows[i] = orders[i]
               ELSE last'.ret = "404" /\ DOMAIN last'.rows = {}]_vars

\* a user who owns an order listed it while another user also owns one
C17_Witness ==
    /\ last.op = "orders-list"
    /\ Cardinality(DOMAIN last.rows) = 1
    /\ \E i, j \in 1..Len(orders) : orders[i].user # orders[j].user

\* C18: every Order's status is one of pending, processing, shipped,
\* delivered, cancelled after any sequence of checkouts, cancellations and
\* order updates; 'canceled' is never stored.
C18_StatusInChoices ==
    \A i \in 1..Len(orders) : orders[i].status \in STATUS_CHOICES

\* an update to 'canceled' was refused after an order had been cancelled
C18_Witness ==
    /\ last = Ret("update_order", "ValidationError")
    /\ \E i \in 1..Len(orders) : orders[i].status = "cancelled"

\* C19: two review creations on one product that run at once can finish with
\* the Product's average_rating or total_reviews different from the aggregate
\* over its visible reviews.  What the Product holds once both have finished
\* is what the later writer's queries returned, and it is off only when one of
\* those queries ran before the other request's row was inserted.
C19_StaleAggregateByInterleaving ==
    \A p \in RatedProducts :
        ( /\ \A u \in Users : pc[u] = "done" /\ ck[u].result = "201" /\ ck[u].p = p )
        => LET w == last.ret
               stored == <<product[p].average_rating, product[p].total_reviews>>
               n == Cardinality(VisibleReviews(reviews, p))
           IN  /\ stored = <<ck[w].avg, ck[w].count>>
               /\ stored # VisibleAggregate(reviews, p)
                    => ck[w].seen < n \/ ck[w].count < n

\* both creations have finished and the Product's aggregates are off
C19_Witness ==
    /\ \A u \in Users : pc[u] = "done" /\ ck[u].result = "201"
    /\ \E p \in RatedProducts :
          /\ Cardinality(VisibleReviews(reviews, p)) = Cardinality(Users)
          /\ <<product[p].average_rating, product[p].total_reviews>>
                # VisibleAggregate(reviews, p)

\* C20: every persisted CartItem has quantity >= 1 and is the only line of its
\* (cart, product) pair; when it was saved its product was available and its
\* quantity within the stock; a save breaking any of these is rejected and
\* persists nothing.
C20_CartItemValid ==
    [][/\ \A u \in Users :
            /\ \A k \in 1..Len(cart_items'[u]) : cart_items'[u][k].quantity >= 1
            /\ \A j, k \in 1..Len(cart_items'[u]) :
                  cart_items'[u][j].product = cart_items'[u][k].product => j = k
       /\ \A u \in Users, p \in Products, q \in CartQuantities :
            AddCartItem(u, p, q) =>
               IF /\ q >= 1
                  /\ p \notin CartProducts(u)
                  /\ product[p].available
                  /\ q <= product[p].stock
               THEN last'.ret = "201"
               ELSE last'.ret = "ValidationError" /\ cart_items' = cart_items
       /\ \A u \in Users, k \in 1..Cardinality(Products), q \in CartQuantities :
            UpdateCartItem(u, k, q) =>
               IF /\ q >= 1
                  /\ product[cart_items[u][k].product].available
                  /\ q <= product[cart_items[u][k].product].stock
               THEN last'.ret = "200"
               ELSE last'.ret = "ValidationError" /\ cart_items' = cart_items
      ]_vars

\* the (user, product) pairs of the wishlist rows
WishlistPairs(ws) == {<<ws[i].user, ws[i].product>> : i \in 1..Len(ws)}

\* C21: there is at most one WishlistItem per (user, product); toggle adds the
\* item when absent and removes it when present, leaving every other item, so
\* two toggles in a row restore the wishlist; creating an item that is
\* already present fails with the duplicate error and changes nothing.
C21_WishlistToggleAndCreate ==
    [][/\ UniqueWishlist(wishlist')
       /\ \A u \in Users, p \in Products :
            ToggleWishlist(u, p) =>
               WishlistPairs(wishlist') =
                  IF InWishlist(u, p) THEN WishlistPairs(wishlist) \ {<<u, p>>}
                                      ELSE WishlistPairs(wishlist) \cup {<<u, p>>}
       /\ \A u \in Users, p \in Products :
            (CreateWishlistItem(u, p) /\ InWishlist(u, p))
            => last'.ret = "ValidationError" /\ wishlist' = wishlist]_vars

\* the pending orders of user u
PendingOrders(u) ==
    {i \in 1..Len(orders) : orders[i].user = u /\ orders[i].status = "pending"}

\* C22 (as stated): with every order created through OrderSerializer.create,
\* no user ever holds two pending orders.
C22_NeverTwoPending ==
    \A u \in Users : Cardinality(PendingOrders(u)) <= 1

\* C22 (amended): a request that reaches OrderSerializer.create while the
\* user has a pending Order is rejected with a validation error, creates no
\* Order and leaves the cart's items; one that creates an Order does so for a
\* user with no pending Order, who then has exactly one.
C22_PendingOrderConflict ==
    [][\A u \in Users :
         /\ ( /\ HasPendingOrder(u)
              /\ \/ CheckoutEndpoint(u) /\ cart_items[u] # <<>>
                 \/ CreateOrderEndpoint(u) )
            => /\ last'.ret = "ValidationError"
               /\ orders' = orders
               /\ cart_items' = cart_items
         /\ ( /\ CheckoutEndpoint(u) \/ CreateOrderEndpoint(u)
              /\ orders' # orders )
            => /\ PendingOrders(u) = {}
               /\ Cardinality({i \in 1..Len(orders') :
                                  orders'[i].user = u /\ orders'[i].status = "pending"}) = 1
      ]_vars

\* a checkout of a non-empty cart was refused for a user with a pending order
C22_Witness ==
    /\ last = Ret("cart-checkout", "ValidationError")
    /\ \E u \in Users : cart_items[u] # <<>> /\ HasPendingOrder(u)

\* C23: a request to CartViewSet.checkout leaves what Cart.checkout leaves
\* from the same state: accepted exactly when the validation loop passes, and
\* then the same Order (total_amount, OrderItems), the same stock debits and
\* the cart checked_out; refused, it changes nothing.
C23_EndpointEqualsCartCheckout ==
    [][\A u \in Users : CheckoutEndpoint(u) =>
         LET st == ProcessItems([rows |-> product, items |-> <<>>,
                                 debit |-> NoDebit, raised |-> FALSE,
                                 rets |-> <<>>],
                                cart_items[u])
             order == [NewOrder(u, total_price(u)) EXCEPT !.items = st.items]
         IN  IF CheckoutValid(product, cart_items[u])
             THEN /\ last'.ret = "200"
                  /\ orders' = Append(orders, order)
                  /\ debited' = Append(debited, st.debit)
                  /\ product' = st.rows
                  /\ cart_status'[u] = CheckedOut
             ELSE /\ last'.ret # "200"
                  /\ UNCHANGED <<orders, debited, product, cart_status>>
      ]_vars

\* C24: a request to ReviewViewSet.report completes successfully and leaves
\* what Review.report() leaves: reported_count one higher, the review hidden
\* once the count reaches 5, the product's aggregates recomputed.
C24_ReportEndpointReports ==
    [][\A i \in 1..Cardinality(Reviewers) : ReportEndpoint(i) =>
         /\ last'.ret = "200"
         /\ reviews' = [reviews EXCEPT ![i] = Reported(@)]
         /\ product' = update_product_rating(product, reviews', reviews[i].product)
      ]_vars

\* C25: in a Cart.checkout whose validation loop passed, served alone, every
\* adjust_stock(quantity, 'remove') of the processing loop returns True, and
\* every OrderItem created has its quantity taken off its product's stock.
C25_EveryDebitSucceeds ==
    [][\A u \in Users :
         (CartCheckout(u) /\ CheckoutValid(product, cart_items[u])) =>
            LET st == ProcessItems([rows |-> product, items |-> <<>>,
                                    debit |-> NoDebit, raised |-> FALSE,
                                    rets |-> <<>>],
                                   cart_items[u])
                new == orders'[Len(orders')]
            IN  /\ Len(st.rets) = Len(cart_items[u])
                /\ \A k \in 1..Len(st.rets) : st.rets[k] = "True"
                /\ Len(orders') = Len(orders) + 1
                /\ Len(new.items) = Len(cart_items[u])
                /\ \A k \in 1..Len(new.items) :
                       product'[new.items[k].product].stock =
                          product[new.items[k].product].stock - new.items[k].quantity
      ]_vars

\* a checkout went through for a cart of two lines, one of them asking for
\* the whole stock of its product
C25_Witness ==
    /\ last = Ret("Cart.checkout", "True")
    /\ \E u \in Users :
          /\ Len(cart_items[u]) = 2
          /\ \E k \in 1..2 :
                /\ cart_items[u][k].quantity > 0
                /\ product[cart_items[u][k].product].stock = 0

\* the stock of product p debited by the orders so far
TotalDebited(p) == SumSeq([i \in 1..Len(debited) |-> debited[i][p]])

\* the stock of product p credited back so far, where checkouts and
\* cancellations are the only writes of stock
TotalCredited(p) == product[p].stock - InitStock + TotalDebited(p)

\* C26: across cancel_order calls and writes of the order status, the stock
\* credited back to a product never exceeds the stock the orders debited.
C26_CreditWithinDebit ==
    \A p \in Products : TotalCredited(p) <= TotalDebited(p)

\* C27: Cart.checkout called on a cart that is already checked_out creates no
\* further Order and debits no stock.
C27_CheckoutOnce ==
    [][\A u \in Users :
         (CartCheckout(u) /\ cart_status[u] = CheckedOut) =>
            /\ orders' = orders
            /\ product' = product
      ]_vars

\* C28: with a Review save and an adjust_stock call running side by side on
\* one product, the Product write of the Review save leaves stock as it is in
\* the database, and the write of adjust_stock leaves average_rating and
\* total_reviews as they are.
C28_DisjointProductFields ==
    [][\A u \in Users :
         /\ RvWrite(u) =>
               \A p \in Products : product'[p].stock = product[p].stock
         /\ AsSave(u) =>
               \A p \in Products :
                  /\ product'[p].average_rating = product[p].average_rating
                  /\ product'[p].total_reviews = product[p].total_reviews
      ]_vars

\* the default addresses of user u of type t
DefaultAddresses(rows, u, t) ==
    {k \in 1..Len(rows) :
        rows[k].user = u /\ rows[k].type = t /\ rows[k].is_default}

\* C29: after every Address save each (user, type) has at most one default
\* address, and a save with is_default true succeeds and leaves the saved
\* address as the one default of its user and type.
C29_OneDefaultAlwaysSaved ==
    [][/\ \A u \in Users, t \in ADDRESS_TYPES :
            Cardinality(DefaultAddresses(addresses', u, t)) <= 1
       /\ \A u \in Users, t \in ADDRESS_TYPES :
            SaveNewAddress(u, t, TRUE) =>
               /\ last'.ret = "saved"
               /\ DefaultAddresses(addresses', u, t) = {Len(addresses) + 1}
       /\ \A i \in 1..MaxAddresses :
            SaveAddress(i, TRUE) =>
               /\ last'.ret = "saved"
               /\ DefaultAddresses(addresses', addresses[i].user, addresses[i].type) = {i}
      ]_vars

\* C30: a StockMovement changes its product's stock once, when it is first
\* saved (+q for in, -|q| for out, +q for adjustment); saving a persisted
\* StockMovement again leaves stock as it is; and a save changes stock only
\* when it also adds the movement record.
C30_MovementAppliedOnce ==
    [][/\ \A p \in Products, t \in MOVEMENT_TYPES, q \in MovementQuantities :
            (SaveStockMovement(p, t, q) /\ last'.ret = "saved") =>
               /\ product'[p].stock = MovementStock(product[p].stock, t, q)
               /\ movements' = Append(movements,
                                      [product |-> p, type |-> t, quantity |-> q])
       /\ \A i \in 1..MaxMovements :
            ResaveStockMovement(i) => product' = product
       /\ \A p \in Products, t \in MOVEMENT_TYPES, q \in MovementQuantities :
            (SaveStockMovement(p, t, q) /\ product' # product) =>
               Len(movements') = Len(movements) + 1
      ]_vars

\* C10: there is at most one Review per (user, product); a second creation by
\* the same user for the same product fails with the duplicate-review error
\* and changes neither the reviews nor the product's rating aggregates.
C10_OneReviewPerUserProduct ==
    [][/\ \A i, j \in 1..Len(reviews') :
            (reviews'[i].user = reviews'[j].user
               /\ reviews'[i].product = reviews'[j].product) => i = j
       /\ \A u \in Users, p \in Products, r \in Ratings :
            ( /\ CreateReview(u, p, r)
              /\ \E i \in 1..Len(reviews) :
                    reviews[i].user = u /\ reviews[i].product = p )
            => /\ last'.ret = "ValidationError"
               /\ reviews' = reviews
               /\ product' = product]_vars

\* a second review of a reviewed product was refused
C10_Witness ==
    /\ last = Ret("create_review", "ValidationError")
    /\ \E i \in 1..Len(reviews) :
          product[reviews[i].product].total_reviews = 1

====
